---- MODULE Spec2Model ----
(***************************************************************************)
(* Model of neo4j/_async/driver.py: the AsyncGraphDatabase factory         *)
(* (driver, bolt_driver, neo4j_driver), the two driver variants            *)
(* (AsyncBoltDriver, AsyncNeo4jDriver), the driver lifecycle (session,     *)
(* close) and the two connectivity verifiers.                              *)
(*                                                                         *)
(* Three specifications share the module:                                  *)
(*   Spec        one factory call at a time (driver construction)          *)
(*   SpecRouting AsyncNeo4jDriver.verify_connectivity, one probe per step  *)
(*   SpecDirect  AsyncBoltDriver: session, close, verify_connectivity, one *)
(*               await per step                                            *)
(* Collaborators that live outside driver.py (neo4j.api, neo4j.conf,       *)
(* neo4j.addressing, the pools, the session) are modelled at their         *)
(* interface; their failures are choices of the environment.               *)
(***************************************************************************)
EXTENDS Naturals, Sequences, FiniteSets, TLC

VARIABLES
    pc,            \* factory call: "idle" | "returned"
    entry,         \* which factory entry point was called
    args,          \* the arguments of that call
    out,           \* what the call did: result, collaborator log, forwarding
    rpc,           \* routing verification: "idle" | "probing" | "done"
    routers,       \* the routers of the pool's default-database routing table
    behaviour,     \* what each router does with a fetch addressed to it
    snapshot,      \* list(table.routers), taken when the loop starts
    it,            \* position of the loop in snapshot
    routing_info,  \* the dict routing_info of _verify_routing_connectivity
    fetched,       \* the address of every fetch_routing_info call, in order
    flips,         \* how often a router changed behaviour during the call
    rresult,       \* outcome of the routing verification
    pool_closed,   \* close() has closed the pool of the direct driver
    sessions,      \* sessions created by session() calls of the application
    late_session,  \* a session was created after close() had been called
    late_probe,    \* a round trip was issued after close() had been called
    vpc,           \* position inside AsyncBoltDriver.verify_connectivity
    vlog,          \* what the verification did, in order
    verr,          \* the exception in flight inside verify_connectivity
    vagent,        \* local variable server_agent
    vresult        \* outcome of the direct verification

varsFactory == <<pc, entry, args, out>>
varsRouting == <<rpc, routers, behaviour, snapshot, it, routing_info, fetched,
                 flips, rresult>>
varsDirect  == <<pool_closed, sessions, late_session, late_probe, vpc, vlog,
                 verr, vagent, vresult>>
vars == <<pc, entry, args, out, rpc, routers, behaviour, snapshot, it,
          routing_info, fetched, flips, rresult, pool_closed, sessions,
          late_session, late_probe, vpc, vlog, verr, vagent, vresult>>

(***************************************************************************)
(* Values shared by the three parts.                                       *)
(***************************************************************************)

\* A Python dict with string keys: a function on the set of its keys.
EmptyBag == << >>

Put(bag, k, v) == [x \in DOMAIN bag \cup {k} |-> IF x = k THEN v ELSE bag[x]]

Restrict(bag, keys) == [x \in DOMAIN bag \cap keys |-> bag[x]]

\* The outcome of a call: a returned value, or a raised error with the error
\* it was raised from ("raise ... from error").
Returned(v) == [kind |-> "return", value |-> v, cause |-> ""]

Raise(e, cause) == [kind |-> "raise", value |-> e, cause |-> cause]

NoResult == [kind |-> "none", value |-> "", cause |-> ""]

\* One entry of the log of collaborator calls: the step and how it ended
\* ("ok" or the name of the error it raised).
Ev(step, outcome) == [step |-> step, outcome |-> outcome]

(***************************************************************************)
(* Part 1: AsyncGraphDatabase, driver construction.                        *)
(***************************************************************************)

\* Names imported from neo4j.api at driver.py:50-64.
DRIVER_BOLT == "DRIVER_BOLT"

DRIVER_NEO4j == "DRIVER_NEO4J"

SECURITY_TYPE_NOT_SECURE == "SECURITY_TYPE_NOT_SECURE"

SECURITY_TYPE_SECURE == "SECURITY_TYPE_SECURE"

SECURITY_TYPE_SELF_SIGNED_CERTIFICATE == "SECURITY_TYPE_SELF_SIGNED_CERTIFICATE"

URI_SCHEME_BOLT == "bolt"

URI_SCHEME_BOLT_SECURE == "bolt+s"

URI_SCHEME_BOLT_SELF_SIGNED_CERTIFICATE == "bolt+ssc"

URI_SCHEME_NEO4J == "neo4j"

URI_SCHEME_NEO4J_SECURE == "neo4j+s"

URI_SCHEME_NEO4J_SELF_SIGNED_CERTIFICATE == "neo4j+ssc"

\* The six recognized schemes.
Schemes ==
    { URI_SCHEME_BOLT, URI_SCHEME_BOLT_SECURE,
      URI_SCHEME_BOLT_SELF_SIGNED_CERTIFICATE, URI_SCHEME_NEO4J,
      URI_SCHEME_NEO4J_SECURE, URI_SCHEME_NEO4J_SELF_SIGNED_CERTIFICATE }

\* parse_neo4j_uri (neo4j.api): the scheme decides the driver type and the
\* security type; any other scheme is rejected.  The parsed URI keeps the
\* netloc and the query.
parse_neo4j_uri(uri) ==
    IF uri.scheme \notin Schemes
    THEN [ok |-> FALSE, driver_type |-> "", security_type |-> "",
          parsed |-> [netloc |-> uri.netloc, query |-> uri.query]]
    ELSE [ok |-> TRUE,
          driver_type |->
              IF uri.scheme \in { URI_SCHEME_BOLT, URI_SCHEME_BOLT_SECURE,
                                  URI_SCHEME_BOLT_SELF_SIGNED_CERTIFICATE }
              THEN DRIVER_BOLT ELSE DRIVER_NEO4j,
          security_type |->
              IF uri.scheme \in {URI_SCHEME_BOLT, URI_SCHEME_NEO4J}
              THEN SECURITY_TYPE_NOT_SECURE
              ELSE IF uri.scheme \in { URI_SCHEME_BOLT_SECURE,
                                       URI_SCHEME_NEO4J_SECURE }
                   THEN SECURITY_TYPE_SECURE
                   ELSE SECURITY_TYPE_SELF_SIGNED_CERTIFICATE,
          parsed |-> [netloc |-> uri.netloc, query |-> uri.query]]

\* parse_routing_context (neo4j.api): the key/value pairs of the query string
\* (a sequence of <<key, value>> with distinct keys) as a mapping.
parse_routing_context(query) ==
    [k \in {query[i][1] : i \in DOMAIN query} |->
        query[CHOOSE i \in DOMAIN query : query[i][1] = k][2]]

\* A target string "host:port" is the sequence of its colon-separated parts;
\* the empty string is the empty sequence, ":" is <<"", "">>.
Direct_default_host == "localhost"

Direct_default_port == "7687"

Direct_default_target == <<"", "">>

Routing_default_host == "localhost"

Routing_default_port == "7687"

\* ": :17601 :17687"
Routing_default_targets == << <<"", "">>, <<"", "17601">>, <<"", "17687">> >>

NumericPorts == {"7687", "17601", "17687"}

\* Address.parse (neo4j.addressing): host and port with the defaults filled
\* in; a target that does not split into host and port, or whose port is not
\* a number, is malformed.
Address_parse(target, default_host, default_port) ==
    LET host == IF Len(target) >= 1 /\ target[1] # ""
                THEN target[1] ELSE default_host
        port == IF Len(target) >= 2 /\ target[2] # ""
                THEN target[2] ELSE default_port
    IN  [ok |-> Len(target) \in {1, 2} /\ port \in NumericPorts,
         address |-> [host |-> host, port |-> port]]

\* _Direct.parse_target
parse_target(target) ==
    LET t == IF target = << >> THEN Direct_default_target ELSE target
    IN  Address_parse(t, Direct_default_host, Direct_default_port)

NonEmptyTarget(t) == t # << >>

\* _Routing.parse_targets: the targets are joined with blanks; an empty join
\* is replaced by the default targets; Address.parse_list splits the join at
\* whitespace and parses every token.
parse_targets(targets) ==
    LET joined_is_empty ==
            Len(targets) = 0 \/ (Len(targets) = 1 /\ targets[1] = << >>)
        tokens == IF joined_is_empty THEN Routing_default_targets
                  ELSE SelectSeq(targets, NonEmptyTarget)
        parsed == [i \in DOMAIN tokens |->
                      Address_parse(tokens[i], Routing_default_host,
                                    Routing_default_port)]
    IN  [ok |-> \A i \in DOMAIN parsed : parsed[i].ok,
         addresses |-> [i \in DOMAIN parsed |-> parsed[i].address]]

\* Keys the pool layer and the workspace layer of the configuration recognize
\* (neo4j.conf; only the keys the model's option bags use).
PoolConfigKeys == {"encrypted", "trusted_certificates"}

WorkspaceConfigKeys == {"database"}

\* Config.consume_chain(config, PoolConfig, WorkspaceConfig): the pool layer
\* takes its keys first, then the workspace layer; a key left over is an error.
consume_chain(config) ==
    LET pool_config == Restrict(config, PoolConfigKeys)
        rest == Restrict(config, DOMAIN config \ PoolConfigKeys)
        workspace_config == Restrict(rest, WorkspaceConfigKeys)
        leftover == DOMAIN rest \ WorkspaceConfigKeys
    IN  [ok |-> leftover = {}, pool_config |-> pool_config,
         workspace_config |-> workspace_config, leftover |-> leftover]

\* What a driver variant's open did.
Frame(result, log, addresses) ==
    [result |-> result, log |-> log, addresses |-> addresses]

\* AsyncBoltDriver.open, a mutation: the pool is opened before the option bag
\* has been split, so a leftover key is noticed only after the pool exists.
AsyncBoltDriver_open_pool_first(target, config, pool) ==
    LET a == parse_target(target)
        c == consume_chain(config)
    IN  IF ~a.ok
        THEN Frame(Raise("MalformedAddress", ""),
                   <<Ev("parse_target", "MalformedAddress")>>, << >>)
        ELSE IF pool # "ok"
        THEN Frame(Raise(pool, ""),
                   <<Ev("parse_target", "ok"), Ev("pool_open", pool)>>, << >>)
        ELSE IF ~c.ok
        THEN Frame(Raise("UnknownConfigurationOption", ""),
                   <<Ev("parse_target", "ok"), Ev("pool_open", "ok"),
                     Ev("consume_chain", "UnknownConfigurationOption")>>,
                   << >>)
        ELSE Frame(Returned("AsyncBoltDriver"),
                   <<Ev("parse_target", "ok"), Ev("pool_open", "ok"),
                     Ev("consume_chain", "ok")>>, <<a.address>>)

\* AsyncBoltDriver.open: parse the target, split the option bag, open the
\* pool (pool is what AsyncBoltPool.open does: "ok" or the error it raises),
\* wrap the pool.
AsyncBoltDriver_open(target, config, pool) ==
    LET a == parse_target(target)
        c == consume_chain(config)
    IN  IF ~a.ok
        THEN Frame(Raise("MalformedAddress", ""),
                   <<Ev("parse_target", "MalformedAddress")>>, << >>)
        ELSE IF ~c.ok
        THEN Frame(Raise("UnknownConfigurationOption", ""),
                   <<Ev("parse_target", "ok"),
                     Ev("consume_chain", "UnknownConfigurationOption")>>,
                   << >>)
        ELSE IF pool # "ok"
        THEN Frame(Raise(pool, ""),
                   <<Ev("parse_target", "ok"), Ev("consume_chain", "ok"),
                     Ev("pool_open", pool)>>, << >>)
        ELSE Frame(Returned("AsyncBoltDriver"),
                   <<Ev("parse_target", "ok"), Ev("consume_chain", "ok"),
                     Ev("pool_open", "ok")>>, <<a.address>>)

\* AsyncNeo4jDriver.open: the same with an address list and a routing pool.
AsyncNeo4jDriver_open(targets, routing_context, config, pool) ==
    LET a == parse_targets(targets)
        c == consume_chain(config)
    IN  IF ~a.ok
        THEN Frame(Raise("MalformedAddress", ""),
                   <<Ev("parse_targets", "MalformedAddress")>>, << >>)
        ELSE IF ~c.ok
        THEN Frame(Raise("UnknownConfigurationOption", ""),
                   <<Ev("parse_targets", "ok"),
                     Ev("consume_chain", "UnknownConfigurationOption")>>,
                   << >>)
        ELSE IF pool # "ok"
        THEN Frame(Raise(pool, ""),
                   <<Ev("parse_targets", "ok"), Ev("consume_chain", "ok"),
                     Ev("pool_open", pool)>>, << >>)
        ELSE Frame(Returned("AsyncNeo4jDriver"),
                   <<Ev("parse_targets", "ok"), Ev("consume_chain", "ok"),
                     Ev("pool_open", "ok")>>, a.addresses)

\* The except clause of a factory: the error types it catches.
CaughtByFactory == {"BoltHandshakeError", "BoltSecurityError"}

\* bolt_driver, a mutation: the except clause names BoltHandshakeError only.
bolt_driver_handshake_only(target, config, pool) ==
    LET f == AsyncBoltDriver_open(target, config, pool)
    IN  IF f.result.kind = "raise" /\ f.result.value = "BoltHandshakeError"
        THEN [f EXCEPT !.result = Raise("ServiceUnavailable", f.result.value)]
        ELSE f

\* AsyncGraphDatabase.bolt_driver: open, and re-raise a caught error as
\* ServiceUnavailable from it.
bolt_driver(target, config, pool) ==
    LET f == AsyncBoltDriver_open(target, config, pool)
    IN  IF f.result.kind = "raise" /\ f.result.value \in CaughtByFactory
        THEN [f EXCEPT !.result = Raise("ServiceUnavailable", f.result.value)]
        ELSE f

\* AsyncGraphDatabase.neo4j_driver
neo4j_driver(targets, routing_context, config, pool) ==
    LET f == AsyncNeo4jDriver_open(targets, routing_context, config, pool)
    IN  IF f.result.kind = "raise" /\ f.result.value \in CaughtByFactory
        THEN [f EXCEPT !.result = Raise("ServiceUnavailable", f.result.value)]
        ELSE f

\* What one call of a factory entry point did: the open frame, and what
\* driver() handed to which variant factory.
NotForwarded(result, log) ==
    [result |-> result, log |-> log, addresses |-> << >>,
     forwardedTo |-> "none", forwarded |-> EmptyBag,
     routing_context |-> EmptyBag]

Forwarded(to, config, routing_context, log, f) ==
    [result |-> f.result, log |-> log \o f.log, addresses |-> f.addresses,
     forwardedTo |-> to, forwarded |-> config,
     routing_context |-> routing_context]

\* driver.py:68, a mutation: only the 'encrypted' key is looked for.
SecurityConflict_encrypted_only(security_type, config) ==
    /\ security_type \in { SECURITY_TYPE_SELF_SIGNED_CERTIFICATE,
                           SECURITY_TYPE_SECURE }
    /\ "encrypted" \in DOMAIN config

\* driver.py:68: the scheme already implies the security settings and the
\* option bag names one of them.
SecurityConflict(security_type, config) ==
    /\ security_type \in { SECURITY_TYPE_SELF_SIGNED_CERTIFICATE,
                           SECURITY_TYPE_SECURE }
    /\ ("encrypted" \in DOMAIN config \/ "trusted_certificates" \in DOMAIN config)

\* driver.py:83-87, a mutation: the self-signed branch forgets the empty
\* trusted-certificate list.
InjectSecurityDefaults_no_trust(security_type, config) ==
    IF security_type \in { SECURITY_TYPE_SECURE,
                           SECURITY_TYPE_SELF_SIGNED_CERTIFICATE }
    THEN Put(config, "encrypted", "True")
    ELSE config

\* driver.py:83-87: the defaults the scheme implies are written into config.
InjectSecurityDefaults(security_type, config) ==
    IF security_type = SECURITY_TYPE_SECURE
    THEN Put(config, "encrypted", "True")
    ELSE IF security_type = SECURITY_TYPE_SELF_SIGNED_CERTIFICATE
    THEN Put(Put(config, "encrypted", "True"), "trusted_certificates", "[]")
    ELSE config

\* driver.py:90, a mutation: the routing context of a bolt URI is not looked at.
RoutingContextGiven_never(routing_context) == FALSE

\* driver.py:90: "if parse_routing_context(parsed.query):", a dict is true
\* when it is not empty.
RoutingContextGiven(routing_context) == DOMAIN routing_context # {}

\* AsyncGraphDatabase.driver
driver(uri, config, pool) ==
    LET p == parse_neo4j_uri(uri)
        classified == <<Ev("parse_neo4j_uri", "ok")>>
        validated == classified \o <<Ev("cross_validation", "ok")>>
        cfg == InjectSecurityDefaults(p.security_type, config)
        ctx == parse_routing_context(p.parsed.query)
    IN  IF ~p.ok
        THEN NotForwarded(Raise("UnsupportedScheme", ""),
                          <<Ev("parse_neo4j_uri", "UnsupportedScheme")>>)
        ELSE IF SecurityConflict(p.security_type, config)
        THEN NotForwarded(Raise("ConfigurationError", ""),
                          classified
                              \o <<Ev("cross_validation", "ConfigurationError")>>)
        ELSE IF p.driver_type = DRIVER_BOLT
        THEN IF RoutingContextGiven(ctx)
             THEN NotForwarded(Raise("ValueError", ""),
                               validated
                                   \o <<Ev("parse_routing_context", "ValueError")>>)
             ELSE Forwarded("bolt_driver", cfg, EmptyBag,
                            validated \o <<Ev("parse_routing_context", "ok")>>,
                            bolt_driver(p.parsed.netloc, cfg, pool))
        ELSE IF p.driver_type = DRIVER_NEO4j
        THEN Forwarded("neo4j_driver", cfg, ctx,
                       validated \o <<Ev("parse_routing_context", "ok")>>,
                       neo4j_driver(<<p.parsed.netloc>>, ctx, cfg, pool))
        ELSE NotForwarded(Returned("None"), validated)

(***************************************************************************)
(* The inputs of the factory calls.                                        *)
(***************************************************************************)

\* Schemes a caller may write: the six recognized ones and one that is not.
UriSchemes == Schemes \cup {"http"}

\* "", "x:7687", "x:abc"
TargetStrings == { << >>, <<"x", "7687">>, <<"x", "abc">> }

\* "", "region=us", "policy=eu&region=us"
QueryStrings ==
    { << >>, << <<"region", "us">> >>,
      << <<"policy", "eu">>, <<"region", "us">> >> }

Uris == [scheme : UriSchemes, netloc : TargetStrings, query : QueryStrings]

NoUri == [scheme |-> "", netloc |-> << >>, query |-> << >>]

OptionKeys == {"encrypted", "trusted_certificates", "database", "bogus"}

OptionValues(k) ==
    IF k = "encrypted" THEN {"True", "False"}
    ELSE IF k = "trusted_certificates" THEN {"[ca.pem]"}
    ELSE IF k = "database" THEN {"neo4j", "system"}
    ELSE {"1"}

AllOptionValues == UNION {OptionValues(k) : k \in OptionKeys}

\* Every option bag a caller may pass.
Bags ==
    UNION { { b \in [K -> AllOptionValues] :
                \A k \in K : b[k] \in OptionValues(k) } :
            K \in SUBSET OptionKeys }

RoutingContexts == {parse_routing_context(q) : q \in QueryStrings}

\* What the pool collaborator's open does: it succeeds, or raises a
\* handshake, a security or another transport-level error.
PoolOutcomes == {"ok", "BoltHandshakeError", "BoltSecurityError", "OSError"}

NoArgs ==
    [uri |-> NoUri, targets |-> << >>, routing_context |-> EmptyBag,
     config |-> EmptyBag]

NoOut == NotForwarded(NoResult, << >>)

(***************************************************************************)
(* The factory calls.                                                      *)
(***************************************************************************)

InitFactory ==
    /\ pc = "idle"
    /\ entry = "none"
    /\ args = NoArgs
    /\ out = NoOut

\* AsyncGraphDatabase.driver(uri, **config)
Driver ==
    /\ pc = "idle"
    /\ \E uri \in Uris, config \in Bags, pool \in PoolOutcomes :
        /\ args' = [NoArgs EXCEPT !.uri = uri, !.config = config]
        /\ out' = driver(uri, config, pool)
    /\ entry' = "driver"
    /\ pc' = "returned"
    /\ UNCHANGED <<varsRouting, varsDirect>>

\* AsyncGraphDatabase.bolt_driver(target, **config)
BoltDriver ==
    /\ pc = "idle"
    /\ \E target \in TargetStrings, config \in Bags, pool \in PoolOutcomes :
        /\ args' = [NoArgs EXCEPT !.targets = <<target>>, !.config = config]
        /\ out' = LET f == bolt_driver(target, config, pool)
                  IN  [NoOut EXCEPT !.result = f.result, !.log = f.log,
                                    !.addresses = f.addresses]
    /\ entry' = "bolt_driver"
    /\ pc' = "returned"
    /\ UNCHANGED <<varsRouting, varsDirect>>

\* AsyncGraphDatabase.neo4j_driver(*targets, routing_context=..., **config)
Neo4jDriver ==
    /\ pc = "idle"
    /\ \E target \in TargetStrings, rc \in RoutingContexts, config \in Bags,
          pool \in PoolOutcomes :
        /\ args' = [NoArgs EXCEPT !.targets = <<target>>,
                                  !.routing_context = rc, !.config = config]
        /\ out' = LET f == neo4j_driver(<<target>>, rc, config, pool)
                  IN  [NoOut EXCEPT !.result = f.result, !.log = f.log,
                                    !.addresses = f.addresses]
    /\ entry' = "neo4j_driver"
    /\ pc' = "returned"
    /\ UNCHANGED <<varsRouting, varsDirect>>

\* The caller has the result; the factory keeps nothing of the call.
FactoryReturn ==
    /\ pc = "returned"
    /\ pc' = "idle"
    /\ entry' = "none"
    /\ args' = NoArgs
    /\ out' = NoOut
    /\ UNCHANGED <<varsRouting, varsDirect>>

NextFactory ==
    \/ Driver
    \/ BoltDriver
    \/ Neo4jDriver
    \/ FactoryReturn

(***************************************************************************)
(* Part 2: AsyncNeo4jDriver.verify_connectivity, which is                  *)
(* _verify_routing_connectivity.  A router endpoint is a number; the       *)
(* routing table holds the routers 1..n in order.                          *)
(***************************************************************************)

\* Largest routing table of the model.
MaxRouters == 3

\* How often a router may change its behaviour while a verification runs.
MaxFlips == 1

\* What a router does with a routing-table fetch addressed to it: it answers
\* with routing info, or the fetch raises the named error.
ProbeOutcomes ==
    {"answers", "ServiceUnavailable", "SessionExpired", "Neo4jError",
     "TypeError"}

\* driver.py:357: address=table.routers[0].
FetchAddress(table_routers, ix) == table_routers[1]

\* driver.py:364, a mutation: "except Exception".
Caught_everything(outcome) == outcome # "answers"

\* driver.py:364: except (ServiceUnavailable, SessionExpired, Neo4jError)
Caught(outcome) ==
    outcome \in {"ServiceUnavailable", "SessionExpired", "Neo4jError"}

\* driver.py:366-369: the first value that is not None returns the dict;
\* without one, ServiceUnavailable is raised.
Aggregate(info) ==
    IF \E k \in DOMAIN info : info[k] # "None"
    THEN Returned("routing_info")
    ELSE Raise("ServiceUnavailable", "")

InitRouting ==
    /\ rpc = "idle"
    /\ routers = << >>
    /\ behaviour = << >>
    /\ snapshot = << >>
    /\ it = 1
    /\ routing_info = EmptyBag
    /\ fetched = << >>
    /\ flips = 0
    /\ rresult = NoResult

\* driver.py:352-354: the call reads the table of the pool and copies its
\* routers; the environment has decided what the table holds and how each
\* router behaves.
RoutingVerifyStart ==
    /\ rpc = "idle"
    /\ \E n \in 0..MaxRouters :
        /\ routers' = [i \in 1..n |-> i]
        /\ snapshot' = [i \in 1..n |-> i]
        /\ \E b \in [1..n -> ProbeOutcomes] : behaviour' = b
    /\ it' = 1
    /\ routing_info' = EmptyBag
    /\ fetched' = << >>
    /\ flips' = 0
    /\ rresult' = NoResult
    /\ rpc' = "probing"
    /\ UNCHANGED <<varsFactory, varsDirect>>

\* driver.py:354-365: one pass of the loop body, one fetch_routing_info.
RoutingProbe ==
    /\ rpc = "probing"
    /\ it <= Len(snapshot)
    /\ LET ix == snapshot[it]
           address == FetchAddress(routers, ix)
           outcome == behaviour[address]
       IN  /\ fetched' = Append(fetched, [ix |-> ix, address |-> address,
                                          outcome |-> outcome])
           /\ IF outcome = "answers"
              THEN /\ routing_info' = Put(routing_info, ix, "info")
                   /\ it' = it + 1
                   /\ UNCHANGED <<rpc, rresult>>
              ELSE IF Caught(outcome)
              THEN /\ routing_info' = Put(routing_info, ix, "None")
                   /\ it' = it + 1
                   /\ UNCHANGED <<rpc, rresult>>
              ELSE /\ rresult' = Raise(outcome, "")
                   /\ rpc' = "done"
                   /\ UNCHANGED <<routing_info, it>>
    /\ UNCHANGED <<routers, behaviour, snapshot, flips>>
    /\ UNCHANGED <<varsFactory, varsDirect>>

\* driver.py:366-369: the loop is over, the outcome is decided.
RoutingDecide ==
    /\ rpc = "probing"
    /\ it > Len(snapshot)
    /\ rresult' = Aggregate(routing_info)
    /\ rpc' = "done"
    /\ UNCHANGED <<routers, behaviour, snapshot, it, routing_info, fetched,
                   flips>>
    /\ UNCHANGED <<varsFactory, varsDirect>>

\* The environment: between two probes a router starts to behave differently.
RouterFlips ==
    /\ rpc = "probing"
    /\ flips < MaxFlips
    /\ \E r \in DOMAIN behaviour, o \in ProbeOutcomes :
        /\ o # behaviour[r]
        /\ behaviour' = [behaviour EXCEPT ![r] = o]
    /\ flips' = flips + 1
    /\ UNCHANGED <<rpc, routers, snapshot, it, routing_info, fetched, rresult>>
    /\ UNCHANGED <<varsFactory, varsDirect>>

\* The caller has the outcome; the probe results are discarded.
RoutingReturn ==
    /\ rpc = "done"
    /\ rpc' = "idle"
    /\ routers' = << >>
    /\ behaviour' = << >>
    /\ snapshot' = << >>
    /\ it' = 1
    /\ routing_info' = EmptyBag
    /\ fetched' = << >>
    /\ flips' = 0
    /\ rresult' = NoResult
    /\ UNCHANGED <<varsFactory, varsDirect>>

NextRouting ==
    \/ RoutingVerifyStart
    \/ RoutingProbe
    \/ RoutingDecide
    \/ RouterFlips
    \/ RoutingReturn

(***************************************************************************)
(* Part 3: an AsyncBoltDriver after construction: session(), close() and   *)
(* verify_connectivity(), which may interleave at every await.             *)
(***************************************************************************)

\* Sessions the application creates with session() in the model.
MaxSessions == 2

\* How an awaited call on the session or the result ends: "ok" or the error
\* it raises.
RoundTripOutcomes == {"ok", "ServiceUnavailable", "SessionExpired", "Neo4jError"}

\* summary.server.agent
ServerAgents == {"Neo4j/4.4.0", "Neo4j/5.0.0"}

\* driver.py:299-304, a mutation: a failure is re-raised as ServiceUnavailable.
VerifyOutcome_wrapped(err, agent) ==
    IF err = "" THEN Returned(agent) ELSE Raise("ServiceUnavailable", err)

\* driver.py:299-304: the with block is left by the exception in flight, or
\* server_agent is returned.
VerifyOutcome(err, agent) ==
    IF err = "" THEN Returned(agent) ELSE Raise(err, "")

InitDirect ==
    /\ pool_closed = FALSE
    /\ sessions = 0
    /\ late_session = FALSE
    /\ late_probe = FALSE
    /\ vpc = "idle"
    /\ vlog = << >>
    /\ verr = ""
    /\ vagent = ""
    /\ vresult = NoResult

\* AsyncDriver.close: await self._pool.close()
Close ==
    /\ pool_closed' = TRUE
    /\ UNCHANGED <<sessions, late_session, late_probe, vpc, vlog, verr,
                   vagent, vresult>>
    /\ UNCHANGED <<varsFactory, varsRouting>>

\* AsyncBoltDriver.session, called by the application: a session over
\* self._pool is built and returned.
Session ==
    /\ sessions < MaxSessions
    /\ sessions' = sessions + 1
    /\ late_session' = (late_session \/ pool_closed)
    /\ UNCHANGED <<pool_closed, late_probe, vpc, vlog, verr, vagent, vresult>>
    /\ UNCHANGED <<varsFactory, varsRouting>>

\* driver.py:297-299: server_agent = None, fetch_size is set, self.session()
\* builds the session and the with block is entered.
VerifyEnter ==
    /\ vpc = "idle"
    /\ vlog' = <<Ev("session_open", "ok")>>
    /\ late_session' = (late_session \/ pool_closed)
    /\ verr' = ""
    /\ vagent' = ""
    /\ vresult' = NoResult
    /\ vpc' = "entered"
    /\ UNCHANGED <<pool_closed, sessions, late_probe>>
    /\ UNCHANGED <<varsFactory, varsRouting>>

\* driver.py:300: result = await session.run("RETURN 1 AS x")
VerifyRun ==
    /\ vpc = "entered"
    /\ \E o \in RoundTripOutcomes :
        /\ vlog' = Append(vlog, Ev("run", o))
        /\ verr' = IF o = "ok" THEN "" ELSE o
        /\ vpc' = IF o = "ok" THEN "ran" ELSE "exiting"
    /\ late_probe' = (late_probe \/ pool_closed)
    /\ UNCHANGED <<pool_closed, sessions, late_session, vagent, vresult>>
    /\ UNCHANGED <<varsFactory, varsRouting>>

\* driver.py:301: value = await result.single().value()
VerifySingle ==
    /\ vpc = "ran"
    /\ \E o \in RoundTripOutcomes :
        /\ vlog' = Append(vlog, Ev("single", o))
        /\ verr' = IF o = "ok" THEN "" ELSE o
        /\ vpc' = IF o = "ok" THEN "singled" ELSE "exiting"
    /\ UNCHANGED <<pool_closed, sessions, late_session, late_probe, vagent,
                   vresult>>
    /\ UNCHANGED <<varsFactory, varsRouting>>

\* driver.py:302-303: summary = await result.consume();
\* server_agent = summary.server.agent
VerifyConsume ==
    /\ vpc = "singled"
    /\ \E o \in RoundTripOutcomes, agent \in ServerAgents :
        /\ vlog' = IF o = "ok"
                   THEN vlog \o <<Ev("consume", "ok"), Ev("server.agent", agent)>>
                   ELSE Append(vlog, Ev("consume", o))
        /\ verr' = IF o = "ok" THEN "" ELSE o
        /\ vagent' = IF o = "ok" THEN agent ELSE vagent
    /\ vpc' = "exiting"
    /\ UNCHANGED <<pool_closed, sessions, late_session, late_probe, vresult>>
    /\ UNCHANGED <<varsFactory, varsRouting>>

\* driver.py:299-304: the with block is left, the session's __aexit__ closes
\* the session, and the call returns server_agent or raises.
VerifyExit ==
    /\ vpc = "exiting"
    /\ vlog' = Append(vlog, Ev("session_close", "ok"))
    /\ vresult' = VerifyOutcome(verr, vagent)
    /\ vpc' = "returned"
    /\ UNCHANGED <<pool_closed, sessions, late_session, late_probe, verr,
                   vagent>>
    /\ UNCHANGED <<varsFactory, varsRouting>>

\* The caller has the outcome of the verification.
VerifyReturn ==
    /\ vpc = "returned"
    /\ vpc' = "idle"
    /\ vlog' = << >>
    /\ verr' = ""
    /\ vagent' = ""
    /\ vresult' = NoResult
    /\ UNCHANGED <<pool_closed, sessions, late_session, late_probe>>
    /\ UNCHANGED <<varsFactory, varsRouting>>

NextDirect ==
    \/ Close
    \/ Session
    \/ VerifyEnter
    \/ VerifyRun
    \/ VerifySingle
    \/ VerifyConsume
    \/ VerifyExit
    \/ VerifyReturn

(***************************************************************************)
(* The specifications.                                                     *)
(***************************************************************************)

Init == InitFactory /\ InitRouting /\ InitDirect

\* Driver construction.
Spec == Init /\ [][NextFactory]_vars

\* Routing verification.
SpecRouting == Init /\ [][NextRouting]_vars

\* Lifecycle and verification of a direct driver.
SpecDirect == Init /\ [][NextDirect]_vars

(***************************************************************************)
(* The claims.                                                             *)
(***************************************************************************)

SecureSchemes == {"bolt+s", "neo4j+s"}

SelfSignedSchemes == {"bolt+ssc", "neo4j+ssc"}

BoltSchemes == {"bolt", "bolt+s", "bolt+ssc"}

Neo4jSchemes == {"neo4j", "neo4j+s", "neo4j+ssc"}

ExplicitSecurityOptions == {"encrypted", "trusted_certificates"}

DriverCallReturned == pc = "returned" /\ entry = "driver"

\* The positions of a step in a log.
Positions(log, step) == {i \in DOMAIN log : log[i].step = step}

\* The caller's bag names 'encrypted' or 'trusted_certificates' although the
\* scheme already implies them.
SchemeConflict ==
    /\ args.uri.scheme \in SecureSchemes \cup SelfSignedSchemes
    /\ DOMAIN args.config \cap ExplicitSecurityOptions # {}

\* C1: for each of the six recognized schemes and each combination of
\* presence of 'encrypted' and 'trusted_certificates' in the caller's bag,
\* driver raises ConfigurationError exactly when the scheme is one of the
\* four +s/+ssc schemes and at least one of the two options is present.
C1_ConfigurationErrorIffConflict ==
    (DriverCallReturned /\ args.uri.scheme \in
        {"bolt", "bolt+s", "bolt+ssc", "neo4j", "neo4j+s", "neo4j+ssc"})
    => ( (out.result.kind = "raise" /\ out.result.value = "ConfigurationError")
         <=> SchemeConflict )

C1_Witness ==
    /\ DriverCallReturned
    /\ args.uri.scheme = "bolt+ssc"
    /\ DOMAIN args.config \cap ExplicitSecurityOptions = {"trusted_certificates"}
    /\ out.result = Raise("ConfigurationError", "")

\* C2: the bag driver hands to the driver variant is the caller's bag plus
\* exactly the defaults of the scheme: encrypted=True for +s; encrypted=True
\* and an empty trusted-certificate list for +ssc; nothing for bolt and
\* neo4j; every option of the caller keeps its value.  The forwarded bag is
\* a function of the scheme and the caller's bag alone, so equal inputs give
\* equal bags.
C2_ForwardedBagIsCallerBagPlusDefaults ==
    (DriverCallReturned /\ out.forwardedTo # "none")
    => LET s == args.uri.scheme
           added == IF s \in SecureSchemes THEN {"encrypted"}
                    ELSE IF s \in SelfSignedSchemes
                    THEN {"encrypted", "trusted_certificates"}
                    ELSE {}
       IN  /\ DOMAIN out.forwarded = DOMAIN args.config \cup added
           /\ DOMAIN args.config \cap added = {}
           /\ \A k \in DOMAIN args.config : out.forwarded[k] = args.config[k]
           /\ "encrypted" \in added => out.forwarded["encrypted"] = "True"
           /\ "trusted_certificates" \in added
                => out.forwarded["trusted_certificates"] = "[]"
           /\ out.forwardedTo =
                IF s \in BoltSchemes THEN "bolt_driver" ELSE "neo4j_driver"

C2_Witness ==
    /\ DriverCallReturned
    /\ args.uri.scheme = "neo4j+ssc"
    /\ DOMAIN args.config = {"database", "bogus"}
    /\ out.forwardedTo = "neo4j_driver"
    /\ out.forwarded["trusted_certificates"] = "[]"
    /\ out.forwarded["database"] = "system"

PoolOpenFailures ==
    {out.log[i].outcome : i \in Positions(out.log, "pool_open")} \ {"ok"}

\* C7: whenever the pool collaborator's open fails with a transport,
\* handshake or security failure, the factory raises ServiceUnavailable and
\* returns no driver.
C7_EveryOpenFailureBecomesServiceUnavailable ==
    (pc = "returned" /\ PoolOpenFailures # {})
    => (out.result.kind = "raise" /\ out.result.value = "ServiceUnavailable")

\* C7, amended: when open fails with BoltHandshakeError or BoltSecurityError
\* the factory raises ServiceUnavailable from that error and returns no
\* driver; any other failure of open reaches the caller as it is.
C7_CaughtOpenFailuresBecomeServiceUnavailable ==
    pc = "returned"
    => \A e \in PoolOpenFailures :
         IF e \in {"BoltHandshakeError", "BoltSecurityError"}
         THEN out.result = Raise("ServiceUnavailable", e)
         ELSE out.result = Raise(e, "")

C7_Witness ==
    /\ pc = "returned"
    /\ entry = "bolt_driver"
    /\ PoolOpenFailures = {"BoltSecurityError"}
    /\ out.result = Raise("ServiceUnavailable", "BoltSecurityError")

\* The steps of a driver() call that come before the pool is opened.
StepsBeforeOpen ==
    {"parse_neo4j_uri", "cross_validation", "parse_routing_context",
     "parse_target", "parse_targets", "consume_chain"}

\* C10: in one call of driver the pool is opened at most once, and only
\* after classification, cross-validation, the routing-parameter check,
\* target parsing and the configuration chain have succeeded, in this order;
\* when one of these steps raises, it is the last thing the call does: no
\* pool is opened, no driver is returned, no step is run twice.
C10_PoolOpenedLastAndOnce ==
    DriverCallReturned
    => LET log == out.log
           opens == Positions(log, "pool_open")
       IN  /\ Cardinality(opens) <= 1
           /\ \A i \in opens :
                /\ i = 6
                /\ log[1] = Ev("parse_neo4j_uri", "ok")
                /\ log[2] = Ev("cross_validation", "ok")
                /\ log[3] = Ev("parse_routing_context", "ok")
                /\ log[4] \in {Ev("parse_target", "ok"), Ev("parse_targets", "ok")}
                /\ log[5] = Ev("consume_chain", "ok")
           /\ \A i \in DOMAIN log :
                (log[i].step \in StepsBeforeOpen /\ log[i].outcome # "ok")
                => /\ i = Len(log)
                   /\ opens = {}
                   /\ out.result = Raise(log[i].outcome, "")
           /\ \A i, j \in DOMAIN log : log[i].step = log[j].step => i = j
           /\ out.result.kind = "return" => opens # {}

C10_Witness ==
    /\ DriverCallReturned
    /\ out.log = <<Ev("parse_neo4j_uri", "ok"), Ev("cross_validation", "ok"),
                   Ev("parse_routing_context", "ok"), Ev("parse_target", "ok"),
                   Ev("consume_chain", "UnknownConfigurationOption")>>
    /\ out.result = Raise("UnknownConfigurationOption", "")

\* The routers of the table all behave as the claims C4 allows, and keep to it.
SteadyRouters(allowed) ==
    /\ flips = 0
    /\ \A r \in DOMAIN behaviour : behaviour[r] \in allowed

\* C4: with a non-empty table of N routers, each answering, raising
\* ServiceUnavailable or raising SessionExpired, the verification succeeds
\* when at least one router would answer, wherever it stands in the table,
\* and raises ServiceUnavailable when all N fail.
C4_SucceedsIffSomeRouterAnswers ==
    ( /\ rpc = "done"
      /\ Len(routers) >= 1
      /\ SteadyRouters({"answers", "ServiceUnavailable", "SessionExpired"}) )
    => /\ (\E r \in DOMAIN behaviour : behaviour[r] = "answers")
            => rresult.kind = "return"
       /\ (\A r \in DOMAIN behaviour : behaviour[r] # "answers")
            => rresult = Raise("ServiceUnavailable", "")

\* C5: in a call in which every probe answers or fails with
\* ServiceUnavailable, SessionExpired or a server-reported error, every
\* router of the table is the address of exactly one fetch_routing_info.
C5_EveryRouterFetchedOnce ==
    ( /\ rpc = "done"
      /\ \A k \in DOMAIN fetched :
            fetched[k].outcome \in {"answers", "ServiceUnavailable",
                                    "SessionExpired", "Neo4jError"} )
    => \A r \in DOMAIN routers :
         Cardinality({k \in DOMAIN fetched : fetched[k].address = routers[r]}) = 1

\* C6: a probe that raises anything but ServiceUnavailable, SessionExpired
\* or a server-reported error ends the verification at once: it is the last
\* probe, the call is over with that same error, and nothing was recorded
\* for the router in routing_info.
C6_UncaughtErrorPropagatesAtOnce ==
    \A k \in DOMAIN fetched :
        fetched[k].outcome \notin {"answers", "ServiceUnavailable",
                                   "SessionExpired", "Neo4jError"}
        => /\ k = Len(fetched)
           /\ rpc = "done"
           /\ rresult = Raise(fetched[k].outcome, "")
           /\ fetched[k].ix \notin DOMAIN routing_info

C6_Witness ==
    /\ rpc = "done"
    /\ Len(routers) = 3
    /\ Len(fetched) = 2
    /\ fetched[1].outcome = "answers"
    /\ fetched[2].outcome = "TypeError"
    /\ rresult = Raise("TypeError", "")

\* C8: after close() has been called, no session() and no
\* verify_connectivity() creates a session or issues a round trip against
\* the pool.
C8_ClosedDriverIsNotReused == ~late_session /\ ~late_probe

\* The positions in vlog of the awaited calls that failed.
VerifyFailures ==
    {i \in DOMAIN vlog :
        vlog[i].step \in {"run", "single", "consume"} /\ vlog[i].outcome # "ok"}

====
